---- MODULE Spec2Model ----
(***************************************************************************)
(* A model of rare-buy-bot (src/main.py): a Telegram bot whose /start      *)
(* handler creates a Swap-event filter on a pair contract and schedules a  *)
(* repeating job, monitor_buys, that polls the filter and relays every     *)
(* buy to one chat; /stop removes the jobs; /help replies with a text.     *)
(*                                                                         *)
(* Python values carry their type: the code compares and computes with     *)
(* values of different types (what os.getenv returns is a str or None,     *)
(* what Telegram delivers as a chat id is an int), and Python's == and **  *)
(* depend on the types of their operands.                                  *)
(***************************************************************************)
EXTENDS Integers, Sequences, FiniteSets, TLC

\* ------------------------------------------------------------ bounds
\* Chats that send commands: update.effective_chat.id ranges over 1..MaxChat.
MaxChat == 2
\* Swap events the pair contract emits in one behaviour.
MaxLog == 2
\* Filters contract.events.Swap.create_filter creates in one behaviour.
MaxFilters == 2
\* Jobs the job queue holds when monitor_buys is driven directly (SpecPoll).
MaxJobs == 2

Chats == 1..MaxChat

\* ------------------------------------------------------ Python values
None == [t |-> "NoneType"]
PyInt(n) == [t |-> "int", v |-> n]
PyStr(s) == [t |-> "str", v |-> s]
PyBool(b) == [t |-> "bool", v |-> b]

\* str(n) for an int n: the decimal digits, with a leading "-" when negative.
Digit(d) ==
    CASE d = 0 -> "0" [] d = 1 -> "1" [] d = 2 -> "2" [] d = 3 -> "3"
      [] d = 4 -> "4" [] d = 5 -> "5" [] d = 6 -> "6" [] d = 7 -> "7"
      [] d = 8 -> "8" [] d = 9 -> "9"

RECURSIVE Digits(_)
Digits(n) == IF n < 10 THEN Digit(n) ELSE Digits(n \div 10) \o Digit(n % 10)

PyStrOfInt(n) == IF n < 0 THEN "-" \o Digits(0 - n) ELSE Digits(n)

\* Mutant of PyEq: the operands are compared by their spelling, so that the
\* int 1 equals the str "1".
PyEq_BySpelling(a, b) ==
    IF a.t = "NoneType" \/ b.t = "NoneType" THEN a.t = b.t
    ELSE (IF a.t = "int" THEN PyStrOfInt(a.v) ELSE a.v)
           = (IF b.t = "int" THEN PyStrOfInt(b.v) ELSE b.v)

\* Python's == on the values the program compares (None, int, str): values
\* of different types are never equal; 1 == "1" is False.
PyEq(a, b) ==
    IF a.t # b.t THEN FALSE
    ELSE IF a.t = "NoneType" THEN TRUE
    ELSE a.v = b.v

\* -------------------------------------------------------- environment
\* The process environment after load_dotenv(), as the operator sets it up:
\* every variable the program reads is set, and each is a string.  The
\* operator names chat 1 or chat 2 as the chat to notify, and a token of
\* two decimals.
Environs ==
    { [CHAT_ID |-> c, TOKEN_DECIMALS |-> d] : c \in {"1", "2"}, d \in {"2"} }

\* os.getenv(key): the variable's string, or None when it is not set.
Getenv(env, key) == IF key \in DOMAIN env THEN PyStr(env[key]) ELSE None

\* ---------------------------------------------------------- constants
ROCKET_EMOJI_DIVIDER == 20
\* Amounts of amount1In are carried in units of 10^15 wei and answers of the
\* price feed in units of 10^6 (TLC's integers have 32 bits): the code's
\* 1e18 is 1000 of the first unit, its 1e8 is 100 of the second.
WEI_PER_ETH == 1000
FEED_SCALE == 100

JOB_NAME == "monitoring_active"
START_TEXT == "Monitoring for buys has started."
STOP_TEXT == "Rare Buy Bot has stopped monitoring buys."
REJECT_TEXT == "This bot works only on @rarefnd group."
HELP_TEXT == "Rare Buy Bot monitors buy events and notifies @rarefnd group chat.\nTo start the bot, type /start@rare_buy_bot.\nThis bot works only on @rarefnd group."

\* -------------------------------------------------------------- state
VARIABLES
    environ,       \* os.environ, fixed when the module is loaded
    event_filter,  \* the module global: None, or the filter start created
    filters,       \* node side: filters[i] is the number of log entries
                   \* filter i has passed (its cursor into chain)
    jobs,          \* the job queue: the scheduled repeating jobs
    nextJob,       \* the id the next run_repeating gives its job
    chain,         \* the Swap events the pair contract has emitted, in order
    outbox,        \* every message monitor_buys sent, in order
    last           \* the last handler or job run: what it was called with,
                   \* the messages it sent, the exception that left it

vars == <<environ, event_filter, filters, jobs, nextJob, chain, outbox, last>>

TOKEN_DECIMALS == Getenv(environ, "TOKEN_DECIMALS")
CHAT_ID == Getenv(environ, "CHAT_ID")

\* The chat the operator configured: the one whose id CHAT_ID spells.
Designated(c) == CHAT_ID.t = "str" /\ CHAT_ID.v = PyStrOfInt(c)

Filter(i) == [t |-> "LogFilter", v |-> i]
Job(i, name) == [id |-> i, name |-> name, callback |-> "monitor_buys"]
Msg(to, text) == [chat_id |-> to, text |-> text]
\* A finished call: the messages it sent, the exception that left it
\* (raised), the exception it caught and logged (caught), and the
\* format_swap_message calls it made with their results (formatted).
Call(op, arg, sent, raised) ==
    [op |-> op, arg |-> arg, sent |-> sent, raised |-> raised,
     caught |-> "none", formatted |-> << >>]

\* The state after the module is loaded and main() has registered the
\* handlers: no filter, an empty job queue.
Init ==
    /\ environ \in Environs
    /\ event_filter = None
    /\ filters = << >>
    /\ jobs = {}
    /\ nextJob = 1
    /\ chain = << >>
    /\ outbox = << >>
    /\ last = Call("main", None, << >>, "none")

\* ------------------------------------------------------------ remote
\* contract.events.Swap.create_filter(fromBlock="latest"): a new filter on
\* the node that returns the entries logged after its creation.
create_filter == Append(filters, Len(chain))

\* job_queue.get_jobs_by_name(name)
get_jobs_by_name(name) == { j \in jobs : j.name = name }

\* ----------------------------------------------------------- handlers
\* start(update, context) for update.effective_chat.id = c.  filterOk and
\* sendOk say whether the RPC call and the Bot API call succeed; a failing
\* call raises and the exception leaves the handler.
start(c, filterOk, sendOk) ==
    LET chat_id == PyInt(c) IN
    /\ UNCHANGED <<environ, chain, outbox>>
    /\ IF ~filterOk
       THEN /\ last' = Call("start", chat_id, << >>, "Web3Exception")
            /\ UNCHANGED <<event_filter, filters, jobs, nextJob>>
       ELSE /\ Len(filters) < MaxFilters
            /\ filters' = create_filter
            /\ event_filter' = Filter(Len(filters) + 1)
            /\ IF PyEq(chat_id, CHAT_ID)
               THEN IF sendOk
                    THEN /\ jobs' = jobs \cup {Job(nextJob, JOB_NAME)}
                         /\ nextJob' = nextJob + 1
                         /\ last' = Call("start", chat_id,
                                         <<Msg(chat_id, START_TEXT)>>, "none")
                    ELSE /\ UNCHANGED <<jobs, nextJob>>
                         /\ last' = Call("start", chat_id, << >>, "TelegramError")
               ELSE /\ UNCHANGED <<jobs, nextJob>>
                    /\ last' = IF sendOk
                               THEN Call("start", chat_id,
                                         <<Msg(chat_id, REJECT_TEXT)>>, "none")
                               ELSE Call("start", chat_id, << >>, "TelegramError")

\* Mutant of stop: the jobs are removed before the chat is looked at.
stop_AnyChat(c, sendOk) ==
    LET chat_id == PyInt(c) IN
    /\ UNCHANGED <<environ, chain, outbox, event_filter, filters, nextJob>>
    /\ jobs' = jobs \ get_jobs_by_name(JOB_NAME)
    /\ last' = IF ~sendOk THEN Call("stop", chat_id, << >>, "TelegramError")
               ELSE IF PyEq(chat_id, CHAT_ID)
               THEN Call("stop", chat_id, <<Msg(chat_id, STOP_TEXT)>>, "none")
               ELSE Call("stop", chat_id, <<Msg(chat_id, REJECT_TEXT)>>, "none")

\* Mutant of stop: the handle is dropped (event_filter = None) on every stop.
stop_Discard(c, sendOk) ==
    LET chat_id == PyInt(c) IN
    /\ UNCHANGED <<environ, chain, outbox, filters, nextJob>>
    /\ event_filter' = None
    /\ IF PyEq(chat_id, CHAT_ID)
       THEN /\ jobs' = jobs \ get_jobs_by_name(JOB_NAME)
            /\ last' = IF sendOk
                       THEN Call("stop", chat_id,
                                 <<Msg(chat_id, STOP_TEXT)>>, "none")
                       ELSE Call("stop", chat_id, << >>, "TelegramError")
       ELSE /\ UNCHANGED jobs
            /\ last' = IF sendOk
                       THEN Call("stop", chat_id,
                                 <<Msg(chat_id, REJECT_TEXT)>>, "none")
                       ELSE Call("stop", chat_id, << >>, "TelegramError")

\* stop(update, context) for update.effective_chat.id = c.
stop(c, sendOk) ==
    LET chat_id == PyInt(c) IN
    /\ UNCHANGED <<environ, chain, outbox, event_filter, filters, nextJob>>
    /\ IF PyEq(chat_id, CHAT_ID)
       THEN /\ jobs' = jobs \ get_jobs_by_name(JOB_NAME)
            /\ last' = IF sendOk
                       THEN Call("stop", chat_id,
                                 <<Msg(chat_id, STOP_TEXT)>>, "none")
                       ELSE Call("stop", chat_id, << >>, "TelegramError")
       ELSE /\ UNCHANGED jobs
            /\ last' = IF sendOk
                       THEN Call("stop", chat_id,
                                 <<Msg(chat_id, REJECT_TEXT)>>, "none")
                       ELSE Call("stop", chat_id, << >>, "TelegramError")

\* Mutant of help_command: the reply goes to CHAT_ID, not to the chat that
\* asked.
help_command_ToGroup(c, sendOk) ==
    LET chat_id == PyInt(c) IN
    /\ UNCHANGED <<environ, chain, outbox, event_filter, filters, jobs, nextJob>>
    /\ last' = IF sendOk
               THEN Call("help", chat_id, <<Msg(CHAT_ID, HELP_TEXT)>>, "none")
               ELSE Call("help", chat_id, << >>, "TelegramError")

\* help_command(update, context) for update.effective_chat.id = c.
help_command(c, sendOk) ==
    LET chat_id == PyInt(c) IN
    /\ UNCHANGED <<environ, chain, outbox, event_filter, filters, jobs, nextJob>>
    /\ last' = IF sendOk
               THEN Call("help", chat_id, <<Msg(chat_id, HELP_TEXT)>>, "none")
               ELSE Call("help", chat_id, << >>, "TelegramError")

CmdStart == \E c \in Chats, filterOk \in BOOLEAN, sendOk \in BOOLEAN :
                start(c, filterOk, sendOk)
CmdStop == \E c \in Chats, sendOk \in BOOLEAN : stop(c, sendOk)
CmdHelp == \E c \in Chats, sendOk \in BOOLEAN : help_command(c, sendOk)

\* ------------------------------------------------------------- chain
\* A Swap event of the pair contract; transactionHash is its place in the log.
SwapEvent(a0, a1, h) ==
    [args |-> [amount0Out |-> a0, amount1In |-> a1], transactionHash |-> h]

\* The swaps the pair sees, as <<amount0Out, amount1In>>: 2 ETH in and no
\* tokens out, and 500.00 tokens out (at two decimals) for 0.01 ETH or for
\* 2 ETH.
SwapAmounts == { <<0, 2000>>, <<50000, 10>>, <<50000, 2000>> }

\* The pair contract emits a Swap event (the node logs it).
ChainSwap ==
    /\ Len(chain) < MaxLog
    /\ \E a \in SwapAmounts :
           chain' = Append(chain, SwapEvent(a[1], a[2], Len(chain) + 1))
    /\ UNCHANGED <<environ, event_filter, filters, jobs, nextJob, outbox, last>>

\* The program as main() runs it: the three command handlers, and the chain.
Next == CmdStart \/ CmdStop \/ CmdHelp \/ ChainSwap

Spec == Init /\ [][Next]_vars

\* --------------------------------------------------- Python arithmetic
\* What a call gives: a value it returns or an exception it raises.
Return(v) == [raises |-> FALSE, v |-> v]
Raise(exc) == [raises |-> TRUE, exc |-> exc]

RECURSIVE IntPow(_, _)
IntPow(b, e) == IF e = 0 THEN 1 ELSE b * IntPow(b, e - 1)

\* base ** e for an int base: an int when e is a non-negative int; for a
\* str or None exponent Python raises TypeError (unsupported operand types).
PyPow(base, e) ==
    IF e.t = "int" /\ e.v >= 0 THEN Return(PyInt(IntPow(base, e.v)))
    ELSE Raise("TypeError")

\* Quotients are kept exact, as fractions in lowest terms with a positive
\* denominator (the code computes them in floating point).
RECURSIVE Gcd(_, _)
Gcd(a, b) == IF b = 0 THEN a ELSE Gcd(b, a % b)

Rat(n, d) == LET g == Gcd(n, d) IN
             IF n = 0 THEN [n |-> 0, d |-> 1] ELSE [n |-> n \div g, d |-> d \div g]
RatMul(x, y) == LET a == Rat(x.n, y.d)
                    b == Rat(y.n, x.d)
                IN  Rat(a.n * b.n, a.d * b.d)
RatDiv(x, y) == RatMul(x, [n |-> y.d, d |-> y.n])
\* x // k for a positive int k, then int(): the floor of the quotient.
FloorDiv(x, k) == x.n \div (x.d * k)
Max(a, b) == IF a >= b THEN a ELSE b

\* f"{x:.<places>f}": x rounded to that many decimals, as the number of
\* units of the last decimal (ties go to the even unit).
Fixed(x, places) ==
    LET y == RatMul(x, [n |-> IntPow(10, places), d |-> 1])
        q == y.n \div y.d
        r2 == 2 * (y.n % y.d)
    IN  IF r2 < y.d \/ (r2 = y.d /\ q % 2 = 0) THEN q ELSE q + 1

\* bool(v) for what format_swap_message returns: False, or a str.
Truthy(v) == IF v.t = "bool" THEN v.v ELSE v.v # << >>

\* ---------------------------------------------------------- formatter
\* Answers of price_feed_contract.functions.latestRoundData().call(): the
\* call fails, or gives the price in latest_price[1] (3000 USD here).
FeedError == [ok |-> FALSE]
FeedAnswer(a) == [ok |-> TRUE, latest_price |-> <<1, a, 0, 0, 1>>]
Feeds == {FeedError, FeedAnswer(300000)}

\* get_latest_eth_price(), given what the remote call gives.
get_latest_eth_price(feed) ==
    IF ~feed.ok THEN Raise("Web3Exception")
    ELSE Return(Rat(feed.latest_price[2], FEED_SCALE))

\* format_swap_message(event), given what its price fetch gives: False for
\* an event without tokens out, the message for the others.  The message
\* is kept by its parts: the number of rockets and the numbers as printed.
format_swap_message(event, feed) ==
    LET scale == PyPow(10, TOKEN_DECIMALS) IN
    IF scale.raises THEN Raise(scale.exc)
    ELSE
    LET tokens_got == Rat(event.args.amount0Out, scale.v.v) IN
    IF tokens_got.n = 0 THEN Return(PyBool(FALSE))
    ELSE
    LET spent_eth == Rat(event.args.amount1In, WEI_PER_ETH)
        price == get_latest_eth_price(feed)
    IN
    IF price.raises THEN Raise(price.exc)
    ELSE
    LET spent_eth_usd_value == RatMul(spent_eth, price.v)
        token_price == RatDiv(spent_eth_usd_value, tokens_got)
        num_rockets == Max(1, FloorDiv(spent_eth_usd_value, ROCKET_EMOJI_DIVIDER))
    IN  Return(PyStr(<<[rockets |-> num_rockets,
                        spent_eth |-> Fixed(spent_eth, 3),
                        spent_usd |-> Fixed(spent_eth_usd_value, 2),
                        got |-> Fixed(tokens_got, 2),
                        price |-> Fixed(token_price, 6),
                        tx |-> event.transactionHash]>>))

\* ------------------------------------------------------------- poller
\* event_filter.get_new_entries() on filter i: the entries logged since the
\* filter's last poll.
get_new_entries(i) == SubSeq(chain, filters[i] + 1, Len(chain))

\* Mutant of Relay: an event whose formatting or sending fails is skipped
\* and the loop goes on with the next one.
RECURSIVE Relay_SkipFailed(_, _, _, _, _, _)
Relay_SkipFailed(entries, k, feeds, sends, sent, formatted) ==
    IF k > Len(entries)
    THEN [sent |-> sent, formatted |-> formatted, exc |-> "none"]
    ELSE
    LET text == format_swap_message(entries[k], feeds[k])
        done == Append(formatted, [event |-> entries[k], feed |-> feeds[k],
                                   result |-> text])
        skip == Relay_SkipFailed(entries, k + 1, feeds, sends, sent, done)
    IN
    IF text.raises
    THEN [skip EXCEPT !.exc = text.exc]
    ELSE IF Truthy(text.v)
    THEN IF sends[k] /\ CHAT_ID.t = "str"
         THEN Relay_SkipFailed(entries, k + 1, feeds, sends,
                               Append(sent, Msg(CHAT_ID, text.v)), done)
         ELSE [skip EXCEPT !.exc = "TelegramError"]
    ELSE skip

\* The for loop of monitor_buys from entry k on.  feeds[k] is what the
\* price fetch for entry k gives, sends[k] whether sending its message
\* succeeds.  Gives the messages sent, the format_swap_message calls made,
\* and the exception that ended the loop ("none": it ran to its end).
RECURSIVE Relay(_, _, _, _, _, _)
Relay(entries, k, feeds, sends, sent, formatted) ==
    IF k > Len(entries)
    THEN [sent |-> sent, formatted |-> formatted, exc |-> "none"]
    ELSE
    LET text == format_swap_message(entries[k], feeds[k])
        done == Append(formatted, [event |-> entries[k], feed |-> feeds[k],
                                   result |-> text])
    IN
    IF text.raises
    THEN [sent |-> sent, formatted |-> done, exc |-> text.exc]
    ELSE IF Truthy(text.v)
    THEN IF sends[k] /\ CHAT_ID.t = "str"
         THEN Relay(entries, k + 1, feeds, sends,
                    Append(sent, Msg(CHAT_ID, text.v)), done)
         ELSE [sent |-> sent, formatted |-> done, exc |-> "TelegramError"]
    ELSE Relay(entries, k + 1, feeds, sends, sent, done)

\* Mutant of TryExcept: no except clause, the exception leaves the job.
TryExcept_Uncaught(j, sent, formatted, exc) ==
    [Call("monitor_buys", j, sent, exc) EXCEPT !.formatted = formatted]

\* The try/except of monitor_buys: a run that sent the messages `sent` and
\* ended with exception exc ("none": the try block ran to its end).  The
\* exception is caught and logged; none leaves the function.
TryExcept(j, sent, formatted, exc) ==
    [Call("monitor_buys", j, sent, "none")
        EXCEPT !.caught = exc, !.formatted = formatted]

\* Mutant of PolledFilter: the job polls the first filter that was created,
\* not the one event_filter names now.
PolledFilter_First == Filter(1).v

\* The filter a run of monitor_buys polls: the one the global event_filter
\* names when the run reads it.
PolledFilter == event_filter.v

\* Mutant of monitor_buys: a failing get_new_entries drops the handle.
monitor_buys_DropFilter(j, getOk, feeds, sends) ==
    /\ UNCHANGED <<environ, chain, jobs, nextJob>>
    /\ IF event_filter = None
       THEN /\ UNCHANGED <<event_filter, filters, outbox>>
            /\ last' = TryExcept(j, << >>, << >>, "AttributeError")
       ELSE IF ~getOk
       THEN /\ UNCHANGED <<filters, outbox>>
            /\ event_filter' = None
            /\ last' = TryExcept(j, << >>, << >>, "Web3Exception")
       ELSE LET i == PolledFilter
                new_entries == get_new_entries(i)
                run == Relay(new_entries, 1, feeds, sends, << >>, << >>)
            IN  /\ UNCHANGED event_filter
                /\ filters' = [filters EXCEPT ![i] = Len(chain)]
                /\ outbox' = outbox \o
                      [n \in 1..Len(run.sent) |->
                          [msg |-> run.sent[n], filter |-> i]]
                /\ last' = TryExcept(j, run.sent, run.formatted, run.exc)

\* monitor_buys(context), run by the job queue for job j.  getOk says
\* whether get_new_entries succeeds.  Whatever is raised inside the try is
\* caught and logged.
monitor_buys(j, getOk, feeds, sends) ==
    /\ UNCHANGED <<environ, chain, event_filter, jobs, nextJob>>
    /\ IF event_filter = None
       THEN \* None has no attribute get_new_entries
            /\ UNCHANGED <<filters, outbox>>
            /\ last' = TryExcept(j, << >>, << >>, "AttributeError")
       ELSE IF ~getOk
       THEN /\ UNCHANGED <<filters, outbox>>
            /\ last' = TryExcept(j, << >>, << >>, "Web3Exception")
       ELSE LET i == PolledFilter
                new_entries == get_new_entries(i)
                run == Relay(new_entries, 1, feeds, sends, << >>, << >>)
            IN  /\ filters' = [filters EXCEPT ![i] = Len(chain)]
                /\ outbox' = outbox \o
                      [n \in 1..Len(run.sent) |->
                          [msg |-> run.sent[n], filter |-> i]]
                /\ last' = TryExcept(j, run.sent, run.formatted, run.exc)

\* The number of entries the next poll of event_filter returns.
BatchLen == IF event_filter = None THEN 0
            ELSE Len(get_new_entries(PolledFilter))

\* The job queue runs a scheduled job.
JobRun == \E j \in jobs, getOk \in BOOLEAN,
             feeds \in [1..BatchLen -> Feeds], sends \in [1..BatchLen -> BOOLEAN] :
             monitor_buys(j, getOk, feeds, sends)

\* monitor_buys driven directly: the job queue holds jobs that run it, as
\* run_repeating(monitor_buys, ..., name="monitoring_active") registers them.
InitPoll ==
    /\ environ \in Environs
    /\ event_filter = None
    /\ filters = << >>
    /\ \E n \in 1..MaxJobs :
          /\ jobs = { Job(i, JOB_NAME) : i \in 1..n }
          /\ nextJob = n + 1
    /\ chain = << >>
    /\ outbox = << >>
    /\ last = Call("main", None, << >>, "none")

NextPoll == CmdStart \/ CmdStop \/ CmdHelp \/ ChainSwap \/ JobRun

SpecPoll == InitPoll /\ [][NextPoll]_vars

\* ------------------------------------------------------------- claims
\* A step that is a call of a handler by chat c, or a run of monitor_buys:
\* the handlers and the job leave the chain alone, and each names itself in
\* last.
StartStep(c) == last'.op = "start" /\ last'.arg = PyInt(c) /\ chain' = chain
StopStep(c) == last'.op = "stop" /\ last'.arg = PyInt(c) /\ chain' = chain
JobStep == last'.op = "monitor_buys" /\ chain' = chain

\* C1: every start that completes schedules exactly one new job named
\* "monitoring_active" and replies "Monitoring for buys has started." when
\* the designated chat invokes it, and schedules nothing and replies with
\* the rejection text when any other chat does.
C1_StartSchedulesOrRejects ==
    [][\A c \in Chats :
         (StartStep(c) /\ last'.raised = "none") =>
            IF Designated(c)
            THEN /\ jobs \subseteq jobs'
                 /\ Cardinality(jobs' \ jobs) = 1
                 /\ \A j \in jobs' \ jobs : j.name = JOB_NAME
                 /\ last'.sent = <<Msg(PyInt(c), START_TEXT)>>
            ELSE /\ jobs' = jobs
                 /\ last'.sent = <<Msg(PyInt(c), REJECT_TEXT)>>]_vars

\* C2: a start from a chat other than the designated chat leaves the set of
\* scheduled jobs and event_filter as they were.
C2_RejectedStartChangesNothing ==
    [][\A c \in Chats :
         (StartStep(c) /\ ~Designated(c) /\ last'.raised = "none") =>
            /\ jobs' = jobs
            /\ event_filter' = event_filter]_vars

\* C3: a stop from the designated chat that completes leaves no job named
\* "monitoring_active", removes no other job, changes nothing when there
\* was no such job, and replies with the stop-confirmation text.
C3_StopRemovesAllJobs ==
    [][\A c \in Chats :
         (StopStep(c) /\ Designated(c) /\ last'.raised = "none") =>
            /\ jobs' = { j \in jobs : j.name # JOB_NAME }
            /\ event_filter' = event_filter
            /\ last'.sent = <<Msg(PyInt(c), STOP_TEXT)>>]_vars

\* C4: a stop from a chat other than the designated chat cancels no job,
\* leaves the subscription handle (the global and the filter's cursor) as
\* it was, and sends nothing but the rejection text to that chat.
C4_RejectedStopChangesNothing ==
    [][\A c \in Chats :
         (StopStep(c) /\ ~Designated(c)) =>
            /\ jobs' = jobs
            /\ event_filter' = event_filter
            /\ filters' = filters
            /\ outbox' = outbox
            /\ last'.sent \in {<< >>, <<Msg(PyInt(c), REJECT_TEXT)>>}]_vars

\* C4's case: a chat other than the designated one has sent stop, was
\* rejected, and monitoring (a job, a filter) is still in place.
C4_Witness ==
    /\ last.op = "stop"
    /\ CHAT_ID.t = "str"
    /\ ~Designated(last.arg.v)
    /\ last.sent = <<Msg(last.arg, REJECT_TEXT)>>
    /\ jobs # {}
    /\ event_filter # None

\* C5: in every run of monitor_buys, format_swap_message returns False for
\* each event it is given whose amount0Out is 0, and the run sends no
\* message for that event.
C5_ZeroAmountSkipped ==
    last.op = "monitor_buys" =>
        \A k \in 1..Len(last.formatted) :
            LET f == last.formatted[k] IN
            f.event.args.amount0Out = 0 =>
                /\ f.result = Return(PyBool(FALSE))
                /\ \A n \in 1..Len(last.sent) :
                       last.sent[n].text.v[1].tx # f.event.transactionHash

\* floor(spent_usd / 20) for an event and a price answer, from the raw
\* numbers: spent_usd = amount1In / 1e18 * answer / 1e8.
ExpectedRockets(event, feed) ==
    Max(1, (event.args.amount1In * feed.latest_price[2])
              \div (WEI_PER_ETH * FEED_SCALE * 20))

\* C6: in every run of monitor_buys, for each event with positive
\* amount0Out whose price fetch succeeds, format_swap_message returns a
\* message with exactly max(1, floor(spent_usd / 20)) rockets; for 500
\* tokens out, 2 ETH in and a price of 3000 that is 300 rockets and a unit
\* price of 12.000000.
C6_RocketCount ==
    last.op = "monitor_buys" =>
        \A k \in 1..Len(last.formatted) :
            LET f == last.formatted[k] IN
            (f.event.args.amount0Out > 0 /\ f.feed.ok) =>
                /\ ~f.result.raises
                /\ f.result.v.t = "str"
                /\ f.result.v.v[1].rockets = ExpectedRockets(f.event, f.feed)
                /\ (/\ f.event.args.amount1In = 2 * WEI_PER_ETH
                    /\ f.feed.latest_price[2] = 3000 * FEED_SCALE
                    /\ f.result.v.v[1].got = 50000)
                       => /\ f.result.v.v[1].rockets = 300
                          /\ f.result.v.v[1].price = 12000000

\* C8: whatever fails inside a run of monitor_buys is caught there: no
\* exception leaves the job, the job stays scheduled, and event_filter is
\* what it was, so the job queue can run the job again.
C8_TickFailureContained ==
    [][JobStep =>
         /\ last'.raised = "none"
         /\ jobs' = jobs
         /\ last'.arg \in jobs'
         /\ event_filter' = event_filter]_vars

\* C8's case: a run of monitor_buys failed while it handled an event (the
\* exception was caught), with a filter in place and its job still scheduled.
C8_Witness ==
    /\ last.op = "monitor_buys"
    /\ last.caught \notin {"none", "AttributeError"}
    /\ Len(last.formatted) > 0
    /\ last.arg \in jobs
    /\ event_filter # None

\* C10: in every reachable state at most one job named "monitoring_active"
\* is scheduled.
C10_AtMostOneJob == Cardinality(get_jobs_by_name(JOB_NAME)) \in {0, 1}

\* C10's case: the designated chat has sent start a second time, with no
\* stop that removed a job in between, and the call completed.
C10_Witness ==
    /\ last.op = "start"
    /\ last.raised = "none"
    /\ Designated(last.arg.v)
    /\ Len(filters) >= 2
    /\ Cardinality(get_jobs_by_name(JOB_NAME)) \in {0, 1}

\* C11 as claimed: event_filter is None before the first start, and None
\* again once a stop from the designated chat has completed.
C11_HandleDiscardedOnStop ==
    [][/\ Len(filters) = 0 => event_filter = None
       /\ \A c \in Chats :
            (StopStep(c) /\ Designated(c) /\ last'.raised = "none") =>
                event_filter' = None]_vars

\* C11 as amended: event_filter is None until the first start whose
\* create_filter succeeds; every such start binds a new filter; a stop, from
\* whatever chat, leaves event_filter as it is, so a handle stays bound
\* after stop until the next start replaces it.
C11_HandleKeptOnStop ==
    [][/\ Len(filters) = 0 => event_filter = None
       /\ Len(filters') = 0 => event_filter' = None
       /\ \A c \in Chats :
            /\ (StartStep(c) /\ last'.raised # "Web3Exception") =>
                   /\ Len(filters') = Len(filters) + 1
                   /\ event_filter' = Filter(Len(filters'))
            /\ StopStep(c) => event_filter' = event_filter]_vars

\* C11's case: the designated chat's stop has completed after a start, and
\* the handle is still bound.
C11_Witness ==
    /\ last.op = "stop"
    /\ last.raised = "none"
    /\ Designated(last.arg.v)
    /\ event_filter # None

HelpStep(c) == last'.op = "help" /\ last'.arg = PyInt(c) /\ chain' = chain

\* C13: event_filter changes only in a step of start; stop, help_command
\* and monitor_buys, whether it succeeds or fails, leave it as it is.
C13_OnlyStartWritesHandle ==
    [][/\ event_filter' # event_filter => \E c \in Chats : StartStep(c)
       /\ \A c \in Chats :
            (StopStep(c) \/ HelpStep(c)) => event_filter' = event_filter
       /\ JobStep => event_filter' = event_filter]_vars

\* C13's case: with a handle bound, monitor_buys has polled it without an
\* error and the handle is still the one start bound.
C13_Witness ==
    /\ last.op = "monitor_buys"
    /\ last.caught = "none"
    /\ event_filter # None
    /\ event_filter = Filter(Len(filters))

\* A run of monitor_buys whose get_new_entries call returned (the run got
\* its batch, whatever happened after).
PolledStep ==
    /\ JobStep
    /\ event_filter # None
    /\ ~(last'.caught = "Web3Exception" /\ last'.formatted = << >>)

\* C15: a start from the designated chat whose create_filter succeeds binds
\* event_filter to a new filter whose cursor is the end of the log, and
\* leaves the older filters as they are; every run of monitor_buys polls
\* the filter event_filter names at that time and moves no other filter's
\* cursor, so a replaced filter is never polled again; and a run notifies
\* only events behind the cursor of the filter it polls, so the events the
\* replaced filter had not returned are never notified.
C15_StartRebindsHandle ==
    [][/\ \A c \in Chats :
            (StartStep(c) /\ Designated(c) /\ last'.raised # "Web3Exception") =>
                /\ event_filter' = Filter(Len(filters) + 1)
                /\ event_filter' # event_filter
                /\ filters'[Len(filters) + 1] = Len(chain)
                /\ \A i \in DOMAIN filters : filters'[i] = filters[i]
       /\ JobStep =>
            \A i \in DOMAIN filters :
                (event_filter = None \/ i # event_filter.v) =>
                    filters'[i] = filters[i]
       /\ PolledStep =>
            /\ filters'[event_filter.v] = Len(chain)
            /\ \A n \in (Len(outbox) + 1)..Len(outbox') :
                   /\ outbox'[n].filter = event_filter.v
                   /\ outbox'[n].msg.text.v[1].tx > filters[event_filter.v]]_vars

\* C15's case: with jobs scheduled, the designated chat's start has replaced
\* a filter that had not returned all the events logged before the new
\* filter's starting point.
C15_Witness ==
    /\ last.op = "start"
    /\ last.raised # "Web3Exception"
    /\ Designated(last.arg.v)
    /\ jobs # {}
    /\ Len(filters) >= 2
    /\ event_filter = Filter(Len(filters))
    /\ filters[Len(filters) - 1] < filters[Len(filters)]

\* The transaction hashes of the events of a batch that carry tokens out.
BuyHashes(batch) ==
    LET buys == SelectSeq(batch, LAMBDA e : e.args.amount0Out # 0)
    IN  [n \in 1..Len(buys) |-> buys[n].transactionHash]

\* C16: when a run of monitor_buys fails while it handles event k of its
\* batch, it has handled the events before k in order and none after k; the
\* events it notified are exactly those before k that carry tokens out; and
\* the filter's cursor has passed the whole batch, while every run is given
\* only events behind the cursor, so event k and the later ones are not
\* delivered again by this filter.
C16_FailedTickDropped ==
    [][PolledStep =>
         LET batch == get_new_entries(event_filter.v)
             done == last'.formatted
             k == Len(done)
         IN  /\ \A n \in 1..k :
                    /\ done[n].event.transactionHash > filters[event_filter.v]
                    /\ n <= Len(batch) /\ done[n].event = batch[n]
             /\ last'.caught # "none" =>
                    /\ k >= 1
                    /\ \A n \in 1..(k - 1) : ~done[n].result.raises
                    /\ [n \in 1..Len(last'.sent) |-> last'.sent[n].text.v[1].tx]
                          = BuyHashes(SubSeq(batch, 1, k - 1))
                    /\ outbox' = outbox \o
                          [n \in 1..Len(last'.sent) |->
                              [msg |-> last'.sent[n], filter |-> event_filter.v]]
                    /\ filters'[event_filter.v] = Len(chain)]_vars

\* C16's case: a run failed on the first event of a batch of two or more:
\* the cursor is behind the later events, which the run never handled.
C16_Witness ==
    /\ last.op = "monitor_buys"
    /\ last.caught = "TypeError"
    /\ Len(last.formatted) = 1
    /\ event_filter # None
    /\ last.formatted[1].event.transactionHash < filters[event_filter.v]

C18_Destinations ==
    /\ \A n \in 1..Len(outbox) : outbox[n].msg.chat_id = CHAT_ID
    /\ last.op = "monitor_buys" =>
          \A n \in 1..Len(last.sent) : last.sent[n].chat_id = CHAT_ID
    /\ last.op \in {"start", "stop", "help"} =>
          \A n \in 1..Len(last.sent) : last.sent[n].chat_id = last.arg

\* C18's case: a chat other than the designated one has sent a command and
\* got its reply, while jobs that run monitor_buys are scheduled and have a
\* filter to poll.
C18_Witness ==
    /\ last.op = "help"
    /\ ~Designated(last.arg.v)
    /\ Len(last.sent) = 1
    /\ last.sent[1].chat_id = last.arg
    /\ jobs # {}
    /\ event_filter # None

====
